---- MODULE Spec2Model ----
(***************************************************************************)
(* A model of violin_rs: the primitive value types of src/vio.rs           *)
(* (Identifier, SemVer, ColorCode, RangeDescriptor, Buildable) and the     *)
(* item components declared in src/item/component.rs.                      *)
(*                                                                         *)
(* Text is a sequence of characters, each character a one-character        *)
(* string: "1.0.0" is <<"1", ".", "0", ".", "0">>.                         *)
(***************************************************************************)
EXTENDS Integers, Sequences, FiniteSets, TLC

VARIABLES
    sv,          \* SemVer machine: the SemVer value last constructed
    ver_text,    \* SemVer machine: [form, text] of the last rendering of sv
    ids,         \* Identifier machine: two Identifier values
    id_text,     \* Identifier machine: [done, text] per value, its rendering
    colors,      \* ColorCode machine: two ColorCode variants
    tokens,      \* ColorCode machine: per variant, the token str_code returned
    heap,        \* Buildable machine: the stored values; heap[1] is the original
    handles,     \* Buildable machine: the Arc handles held, each an address in heap
    frozen,      \* Buildable machine: per handle, the original when build() ran
    comp,        \* component machine: the component value, [desc, vals]
    outs,        \* component machine: what serialize() returned since comp last changed
    components,  \* item machine: the item's components, in order
    component_map, \* item machine: [done, members], the serialized component map
    descriptor,  \* generator machine: the descriptor handed to item_component!
    gen_status,  \* generator machine: "written", "generated" or "rejected"
    constructed  \* generator machine: whether a value of the generated type exists

vars == <<sv, ver_text, ids, id_text, colors, tokens, heap, handles, frozen,
          comp, outs, components, component_map, descriptor, gen_status, constructed>>

\* What the actions of one machine leave alone: the other machines' state.
semver_vars == <<sv, ver_text>>
ident_vars == <<ids, id_text>>
color_vars == <<colors, tokens>>
build_vars == <<heap, handles, frozen>>
comp_vars == <<comp, outs>>
item_vars == <<components, component_map>>
gen_vars == <<descriptor, gen_status, constructed>>
not_semver == <<ident_vars, color_vars, build_vars, comp_vars, item_vars, gen_vars>>
not_ident == <<semver_vars, color_vars, build_vars, comp_vars, item_vars, gen_vars>>
not_color == <<semver_vars, ident_vars, build_vars, comp_vars, item_vars, gen_vars>>
not_build == <<semver_vars, ident_vars, color_vars, comp_vars, item_vars, gen_vars>>
not_comp == <<semver_vars, ident_vars, color_vars, build_vars, item_vars, gen_vars>>
not_item == <<semver_vars, ident_vars, color_vars, build_vars, comp_vars, gen_vars>>
not_gen == <<semver_vars, ident_vars, color_vars, build_vars, comp_vars, item_vars>>

(***************************************************************************)
(* Bounds of the model.                                                    *)
(***************************************************************************)
\* SemVer components are drawn from MinVer..MaxVer (i32 arguments).
MaxVer == 2
\* Identifier parts are texts over IdChars of at most MaxIdLen characters.
MaxIdLen == 2

\* At most MaxHandles handles of snapshots are held at a time.
MaxHandles == 3
\* serialize() is called at most MaxCalls times between two changes of a value.
MaxCalls == 2
\* An item holds at most MaxComponents components.
MaxComponents == 2

MinVer == 0 - 1
VerVals == MinVer..MaxVer

(***************************************************************************)
(* Text helpers.                                                           *)
(***************************************************************************)
RECURSIVE Texts(_, _)
Texts(chars, n) ==
    IF n = 0 THEN {<<>>}
    ELSE LET shorter == Texts(chars, n - 1)
         IN  shorter \cup {Append(t, c) : t \in {u \in shorter : Len(u) = n - 1}, c \in chars}

Digits == <<"0", "1", "2", "3", "4", "5", "6", "7", "8", "9">>

\* Display for an unsigned magnitude: most significant digit first.
RECURSIVE fmt_u(_)
fmt_u(n) ==
    IF n < 10 THEN <<Digits[n + 1]>>
    ELSE fmt_u(n \div 10) \o <<Digits[(n % 10) + 1]>>

\* Display for i32, as format!("{}", n) writes it.
fmt_i32(n) == IF n < 0 THEN <<"-">> \o fmt_u(0 - n) ELSE fmt_u(n)

(***************************************************************************)
(* Identifier (src/vio.rs:12-38).                                          *)
(***************************************************************************)
IdChars == {"a", ":"}
IdParts == Texts(IdChars, MaxIdLen)

Identifier_new(namespace, value) == [namespace |-> namespace, value |-> value]

\* format!("{}:{}", self.namespace, self.value)
Identifier_render(self) == self.namespace \o <<":">> \o self.value

(***************************************************************************)
(* SemVer (src/vio.rs:62-116).                                             *)
(***************************************************************************)
SemVer_new(major, minor, patch) ==
    [major |-> major, minor |-> minor, patch |-> patch, beta |-> FALSE]

SemVer_new_beta(major, minor, patch) ==
    [major |-> major, minor |-> minor, patch |-> patch, beta |-> TRUE]

SemVer_current == [major |-> 1, minor |-> 21, patch |-> 40, beta |-> FALSE]

\* A plausible slip: the suffix written whatever the flag says.
SemVer_render_always_beta(self) ==
    fmt_i32(self.major) \o <<".">> \o fmt_i32(self.minor) \o <<".">>
        \o fmt_i32(self.patch) \o <<"-", "b", "e", "t", "a">>

\* format!("{}.{}.{}{}", major, minor, patch, if beta { "-beta" } else { "" })
SemVer_render(self) ==
    fmt_i32(self.major) \o <<".">> \o fmt_i32(self.minor) \o <<".">>
        \o fmt_i32(self.patch)
        \o (IF self.beta THEN <<"-", "b", "e", "t", "a">> ELSE <<>>)

\* format!("{}, {}, {}", major, minor, patch)
SemVer_render_commas(self) ==
    fmt_i32(self.major) \o <<",", " ">> \o fmt_i32(self.minor) \o <<",", " ">>
        \o fmt_i32(self.patch)

(***************************************************************************)
(* ColorCode (src/vio.rs:150-218).                                         *)
(***************************************************************************)
ColorCode ==
    {"Black", "DarkBlue", "DarkGreen", "DarkAqua", "DarkRed", "DarkPurple",
     "Gold", "Gray", "DarkGray", "Blue", "Green", "Aqua", "Red", "LightPurple",
     "Yellow", "White", "MinecoinGold", "MaterialQuartz", "MaterialIron",
     "MaterialNetherite", "MaterialRedstone", "MaterialCopper", "MaterialGold",
     "MaterialEmerald", "MaterialDiamond", "MaterialLapis", "MaterialAmethyst",
     "MaterialResin"}

\* The last character of the token of each variant.
str_code_char(self) ==
    CASE self = "Black" -> "0"
      [] self = "DarkBlue" -> "1"
      [] self = "DarkGreen" -> "2"
      [] self = "DarkAqua" -> "3"
      [] self = "DarkRed" -> "4"
      [] self = "DarkPurple" -> "5"
      [] self = "Gold" -> "6"
      [] self = "Gray" -> "7"
      [] self = "DarkGray" -> "8"
      [] self = "Blue" -> "9"
      [] self = "Green" -> "a"
      [] self = "Aqua" -> "b"
      [] self = "Red" -> "c"
      [] self = "LightPurple" -> "d"
      [] self = "Yellow" -> "e"
      [] self = "White" -> "f"
      [] self = "MinecoinGold" -> "g"
      [] self = "MaterialQuartz" -> "h"
      [] self = "MaterialIron" -> "i"
      [] self = "MaterialNetherite" -> "j"
      [] self = "MaterialRedstone" -> "m"
      [] self = "MaterialCopper" -> "n"
      [] self = "MaterialGold" -> "p"
      [] self = "MaterialEmerald" -> "q"
      [] self = "MaterialDiamond" -> "s"
      [] self = "MaterialLapis" -> "t"
      [] self = "MaterialAmethyst" -> "u"
      [] self = "MaterialResin" -> "v"

\* A plausible slip: a copied match arm that keeps the token of the arm above.
str_code_copied_arm(self) ==
    IF self = "MaterialResin" THEN <<"§", "u">> ELSE <<"§", str_code_char(self)>>

\* ColorCode::str_code: the token "§X" of a variant.
str_code(self) == <<"§", str_code_char(self)>>

(***************************************************************************)
(* RangeDescriptor<T> (src/vio.rs:118-129).                                *)
(***************************************************************************)
RangeDescriptor_new(min, max) == [min |-> min, max |-> max]

(***************************************************************************)
(* The component descriptors of src/item/component.rs, one per             *)
(* item_component! invocation: the name, the wire key, the transparency    *)
(* flag, and per field its name, wire key, type and flags.                 *)
(***************************************************************************)
\* A plausible slip: the "optional" flag of Damage.value left out.
Damage_required ==
    [name |-> "Damage", wire_key |-> "minecraft:damage", transparency |-> FALSE,
     fields |-> <<
          [field_name |-> "value", wire_key |-> "value", value_type |-> "i32",
           flags |-> {"public"}]>>]

\* src/item/component.rs:13-16
Damage ==
    [name |-> "Damage", wire_key |-> "minecraft:damage", transparency |-> FALSE,
     fields |-> <<
          [field_name |-> "value", wire_key |-> "value", value_type |-> "i32",
           flags |-> {"public", "optional"}]>>]

\* src/item/component.rs:20-23
DisplayName ==
    [name |-> "DisplayName", wire_key |-> "minecraft:display_name", transparency |-> FALSE,
     fields |-> <<
          [field_name |-> "value", wire_key |-> "value", value_type |-> "String",
           flags |-> {"public", "into"}]>>]

\* src/item/component.rs:27-30
Icon ==
    [name |-> "Icon", wire_key |-> "minecraft:icon", transparency |-> FALSE,
     fields |-> <<
          [field_name |-> "textures", wire_key |-> "textures", value_type |-> "ItemTextureDescriptor",
           flags |-> {"public"}]>>]

\* src/item/component.rs:34-37
Fuel ==
    [name |-> "Fuel", wire_key |-> "minecraft:fuel", transparency |-> FALSE,
     fields |-> <<
          [field_name |-> "duration", wire_key |-> "duration", value_type |-> "i32",
           flags |-> {"public"}]>>]

\* src/item/component.rs:41-44
HandEquipped ==
    [name |-> "HandEquipped", wire_key |-> "minecraft:hand_equipped", transparency |-> FALSE,
     fields |-> <<
          [field_name |-> "value", wire_key |-> "value", value_type |-> "bool",
           flags |-> {"public"}]>>]

\* src/item/component.rs:48-51
AllowOffHand ==
    [name |-> "AllowOffHand", wire_key |-> "minecraft:allow_off_hand", transparency |-> FALSE,
     fields |-> <<
          [field_name |-> "value", wire_key |-> "value", value_type |-> "bool",
           flags |-> {"public"}]>>]

\* src/item/component.rs:55-58
MaxStackSize ==
    [name |-> "MaxStackSize", wire_key |-> "minecraft:max_stack_size", transparency |-> FALSE,
     fields |-> <<
          [field_name |-> "value", wire_key |-> "value", value_type |-> "i32",
           flags |-> {"public"}]>>]

\* A plausible slip: damage_chance declared "optional".
Durabilty_optional_chance ==
    [name |-> "Durabilty", wire_key |-> "minecraft:durability", transparency |-> FALSE,
     fields |-> <<
          [field_name |-> "damage_chance", wire_key |-> "damage_chance", value_type |-> "RangeDescriptor<i32>",
           flags |-> {"public", "optional"}],
          [field_name |-> "max_durability", wire_key |-> "max_durability", value_type |-> "i32",
           flags |-> {"public"}]>>]

\* src/item/component.rs:62-66
Durabilty ==
    [name |-> "Durabilty", wire_key |-> "minecraft:durability", transparency |-> FALSE,
     fields |-> <<
          [field_name |-> "damage_chance", wire_key |-> "damage_chance", value_type |-> "RangeDescriptor<i32>",
           flags |-> {"public"}],
          [field_name |-> "max_durability", wire_key |-> "max_durability", value_type |-> "i32",
           flags |-> {"public"}]>>]

\* src/item/component.rs:70-73
Armor ==
    [name |-> "Armor", wire_key |-> "minecraft:armor", transparency |-> FALSE,
     fields |-> <<
          [field_name |-> "protection", wire_key |-> "protection", value_type |-> "i32",
           flags |-> {"public"}]>>]

\* src/item/component.rs:77-80
CreativeCategory ==
    [name |-> "CreativeCategory", wire_key |-> "minecraft:creative_category", transparency |-> FALSE,
     fields |-> <<
          [field_name |-> "parent", wire_key |-> "parent", value_type |-> "String",
           flags |-> {"public", "into"}]>>]

\* src/item/component.rs:84-87
Repairable ==
    [name |-> "Repairable", wire_key |-> "minecraft:repairable", transparency |-> FALSE,
     fields |-> <<
          [field_name |-> "repair_items", wire_key |-> "repair_items", value_type |-> "Vec<ItemRepairEntry>",
           flags |-> {"public"}]>>]

\* src/item/component.rs:91-94
CustomComponents ==
    [name |-> "CustomComponents", wire_key |-> "minecraft:custom_components", transparency |-> TRUE,
     fields |-> <<
          [field_name |-> "components", wire_key |-> "minecraft:custom_components", value_type |-> "Vec<Identifier>",
           flags |-> {"public"}]>>]

\* src/item/component.rs:98-101
BundleInteraction ==
    [name |-> "BundleInteraction", wire_key |-> "minecraft:bundle_interaction", transparency |-> FALSE,
     fields |-> <<
          [field_name |-> "viewable_slots", wire_key |-> "num_viewable_slots", value_type |-> "u8",
           flags |-> {"public"}]>>]

\* src/item/component.rs:105-108
CanDestroyInCreative ==
    [name |-> "CanDestroyInCreative", wire_key |-> "minecraft:can_destroy_in_creative", transparency |-> FALSE,
     fields |-> <<
          [field_name |-> "value", wire_key |-> "value", value_type |-> "bool",
           flags |-> {"public"}]>>]

\* src/item/component.rs:112-116
Cooldown ==
    [name |-> "Cooldown", wire_key |-> "minecraft:cooldown", transparency |-> FALSE,
     fields |-> <<
          [field_name |-> "category", wire_key |-> "category", value_type |-> "String",
           flags |-> {"public"}],
          [field_name |-> "duration", wire_key |-> "duration", value_type |-> "f64",
           flags |-> {"public"}]>>]

\* src/item/component.rs:120-123
DamageAbsorption ==
    [name |-> "DamageAbsorption", wire_key |-> "minecraft:damage_absorption", transparency |-> FALSE,
     fields |-> <<
          [field_name |-> "absorbable_causes", wire_key |-> "absorbable_causes", value_type |-> "Vec<String>",
           flags |-> {"public"}]>>]

\* src/item/component.rs:127-131
Digger ==
    [name |-> "Digger", wire_key |-> "minecraft:digger", transparency |-> FALSE,
     fields |-> <<
          [field_name |-> "use_efficiency", wire_key |-> "use_efficiency", value_type |-> "bool",
           flags |-> {"public"}],
          [field_name |-> "destroy_speeds", wire_key |-> "destroy_speeds", value_type |-> "Vec<BlockDestroySpeed>",
           flags |-> {"public"}]>>]

\* src/item/component.rs:135-139
Enchantable ==
    [name |-> "Enchantable", wire_key |-> "minecraft:enchantable", transparency |-> FALSE,
     fields |-> <<
          [field_name |-> "value", wire_key |-> "value", value_type |-> "u8",
           flags |-> {"public"}],
          [field_name |-> "slot", wire_key |-> "slot", value_type |-> "EnchantableSlot",
           flags |-> {"public"}]>>]

\* src/item/component.rs:143-148
EntityPlacer ==
    [name |-> "EntityPlacer", wire_key |-> "minecraft:entity_placer", transparency |-> FALSE,
     fields |-> <<
          [field_name |-> "entity", wire_key |-> "entity", value_type |-> "Identifier",
           flags |-> {"public"}],
          [field_name |-> "dispense_on", wire_key |-> "dispense_on", value_type |-> "Vec<Identifier>",
           flags |-> {"public"}],
          [field_name |-> "use_on", wire_key |-> "use_on", value_type |-> "Vec<Identifier>",
           flags |-> {"public"}]>>]

\* src/item/component.rs:152-155
Glint ==
    [name |-> "Glint", wire_key |-> "minecraft:glint", transparency |-> FALSE,
     fields |-> <<
          [field_name |-> "value", wire_key |-> "value", value_type |-> "bool",
           flags |-> {"public"}]>>]

\* src/item/component.rs:159-162
HoverTextColor ==
    [name |-> "HoverTextColor", wire_key |-> "minecraft:hover_text_color", transparency |-> TRUE,
     fields |-> <<
          [field_name |-> "color", wire_key |-> "minecraft:hover_text_color", value_type |-> "ColorCode",
           flags |-> {"public"}]>>]

\* src/item/component.rs:166-169
DurabilitySensor ==
    [name |-> "DurabilitySensor", wire_key |-> "minecraft:durability_sensor", transparency |-> FALSE,
     fields |-> <<
          [field_name |-> "durability_thresholds", wire_key |-> "durability_thresholds", value_type |-> "Vec<DurabilityThreshold>",
           flags |-> {"public"}]>>]

\* src/item/component.rs:173-176
Dyeable ==
    [name |-> "Dyeable", wire_key |-> "minecraft:dyeable", transparency |-> FALSE,
     fields |-> <<
          [field_name |-> "default_color", wire_key |-> "default_color", value_type |-> "String",
           flags |-> {"public", "into"}]>>]

\* src/item/component.rs:180-183
InteractButton ==
    [name |-> "InteractButton", wire_key |-> "minecraft:interact_button", transparency |-> TRUE,
     fields |-> <<
          [field_name |-> "value", wire_key |-> "minecraft:interact_button", value_type |-> "String",
           flags |-> {"public", "into"}]>>]

\* src/item/component.rs:187-190
LiquidClipped ==
    [name |-> "LiquidClipped", wire_key |-> "minecraft:liquid_clipped", transparency |-> FALSE,
     fields |-> <<
          [field_name |-> "value", wire_key |-> "value", value_type |-> "bool",
           flags |-> {"public"}]>>]

\* src/item/component.rs:194-198
Projectile ==
    [name |-> "Projectile", wire_key |-> "minecraft:projectile", transparency |-> FALSE,
     fields |-> <<
          [field_name |-> "minimum_critical_power", wire_key |-> "minimum_critical_power", value_type |-> "f64",
           flags |-> {"public"}],
          [field_name |-> "projectile_entity", wire_key |-> "projectile_entity", value_type |-> "Identifier",
           flags |-> {"public"}]>>]

\* A plausible slip: the "transparency" flag of Rarity left out.
Rarity_nested ==
    [name |-> "Rarity", wire_key |-> "minecraft:rarity", transparency |-> FALSE,
     fields |-> <<
          [field_name |-> "rarity", wire_key |-> "minecraft:rarity", value_type |-> "ItemRarity",
           flags |-> {"public"}]>>]

\* src/item/component.rs:202-205
Rarity ==
    [name |-> "Rarity", wire_key |-> "minecraft:rarity", transparency |-> TRUE,
     fields |-> <<
          [field_name |-> "rarity", wire_key |-> "minecraft:rarity", value_type |-> "ItemRarity",
           flags |-> {"public"}]>>]

Descriptors ==
    {Damage, DisplayName, Icon, Fuel, HandEquipped,
     AllowOffHand, MaxStackSize, Durabilty, Armor, CreativeCategory,
     Repairable, CustomComponents, BundleInteraction, CanDestroyInCreative, Cooldown,
     DamageAbsorption, Digger, Enchantable, EntityPlacer, Glint,
     HoverTextColor, DurabilitySensor, Dyeable, InteractButton, LiquidClipped,
     Projectile, Rarity}

Descriptor(name) == CHOOSE d \in Descriptors : d.name = name

(***************************************************************************)
(* Field values, tagged with what they are, and the JSON they serialize    *)
(* to.  A JSON object is a sequence of members, in the order written.      *)
(***************************************************************************)
VInt(n) == [t |-> "int", v |-> n]
VFloat(n) == [t |-> "float", v |-> n]
VBool(b) == [t |-> "bool", v |-> b]
VString(s) == [t |-> "string", v |-> s]
VIdent(id) == [t |-> "identifier", v |-> id]
VRange(r) == [t |-> "range", v |-> r]
VColor(c) == [t |-> "color", v |-> c]
VVec(items) == [t |-> "vec", v |-> items]
\* A value of a type declared outside these files (crate::item::utils,
\* crate::block::utils): only which type and which value is known.
VExt(type, n) == [t |-> "ext", v |-> <<type, n>>]

JInt(n) == [j |-> "int", v |-> n]
JFloat(n) == [j |-> "float", v |-> n]
JBool(b) == [j |-> "bool", v |-> b]
JStr(s) == [j |-> "string", v |-> s]
JArr(items) == [j |-> "array", v |-> items]
JObj(members) == [j |-> "object", v |-> members]
JExt(type, n) == [j |-> "ext", v |-> <<type, n>>]
JNull == [j |-> "null", v |-> <<>>]
Member(key, value) == [key |-> key, value |-> value]

\* #[serde(rename_all = "snake_case")] on ColorCode: the name of each variant.
snake_case(self) ==
    CASE
         self = "Black" -> <<"b", "l", "a", "c", "k">>
      [] self = "DarkBlue" -> <<"d", "a", "r", "k", "_", "b", "l", "u", "e">>
      [] self = "DarkGreen" -> <<"d", "a", "r", "k", "_", "g", "r", "e", "e", "n">>
      [] self = "DarkAqua" -> <<"d", "a", "r", "k", "_", "a", "q", "u", "a">>
      [] self = "DarkRed" -> <<"d", "a", "r", "k", "_", "r", "e", "d">>
      [] self = "DarkPurple" -> <<"d", "a", "r", "k", "_", "p", "u", "r", "p", "l", "e">>
      [] self = "Gold" -> <<"g", "o", "l", "d">>
      [] self = "Gray" -> <<"g", "r", "a", "y">>
      [] self = "DarkGray" -> <<"d", "a", "r", "k", "_", "g", "r", "a", "y">>
      [] self = "Blue" -> <<"b", "l", "u", "e">>
      [] self = "Green" -> <<"g", "r", "e", "e", "n">>
      [] self = "Aqua" -> <<"a", "q", "u", "a">>
      [] self = "Red" -> <<"r", "e", "d">>
      [] self = "LightPurple" -> <<"l", "i", "g", "h", "t", "_", "p", "u", "r", "p", "l", "e">>
      [] self = "Yellow" -> <<"y", "e", "l", "l", "o", "w">>
      [] self = "White" -> <<"w", "h", "i", "t", "e">>
      [] self = "MinecoinGold" -> <<"m", "i", "n", "e", "c", "o", "i", "n", "_", "g", "o", "l", "d">>
      [] self = "MaterialQuartz" -> <<"m", "a", "t", "e", "r", "i", "a", "l", "_", "q", "u", "a", "r", "t", "z">>
      [] self = "MaterialIron" -> <<"m", "a", "t", "e", "r", "i", "a", "l", "_", "i", "r", "o", "n">>
      [] self = "MaterialNetherite" -> <<"m", "a", "t", "e", "r", "i", "a", "l", "_", "n", "e", "t", "h", "e", "r", "i", "t", "e">>
      [] self = "MaterialRedstone" -> <<"m", "a", "t", "e", "r", "i", "a", "l", "_", "r", "e", "d", "s", "t", "o", "n", "e">>
      [] self = "MaterialCopper" -> <<"m", "a", "t", "e", "r", "i", "a", "l", "_", "c", "o", "p", "p", "e", "r">>
      [] self = "MaterialGold" -> <<"m", "a", "t", "e", "r", "i", "a", "l", "_", "g", "o", "l", "d">>
      [] self = "MaterialEmerald" -> <<"m", "a", "t", "e", "r", "i", "a", "l", "_", "e", "m", "e", "r", "a", "l", "d">>
      [] self = "MaterialDiamond" -> <<"m", "a", "t", "e", "r", "i", "a", "l", "_", "d", "i", "a", "m", "o", "n", "d">>
      [] self = "MaterialLapis" -> <<"m", "a", "t", "e", "r", "i", "a", "l", "_", "l", "a", "p", "i", "s">>
      [] self = "MaterialAmethyst" -> <<"m", "a", "t", "e", "r", "i", "a", "l", "_", "a", "m", "e", "t", "h", "y", "s", "t">>
      [] self = "MaterialResin" -> <<"m", "a", "t", "e", "r", "i", "a", "l", "_", "r", "e", "s", "i", "n">>

\* impl Serialize for Identifier: serialize_str(&self.render())
Identifier_serialize(self) == JStr(Identifier_render(self))

\* #[derive(Serialize)] on RangeDescriptor<i32>: the fields min, max in order.
RangeDescriptor_serialize(self) ==
    JObj(<<Member("min", JInt(self.min)), Member("max", JInt(self.max))>>)

\* serde's Serialize for the value of a field.
RECURSIVE Serialize_value(_)
Serialize_value(val) ==
    CASE val.t = "int" -> JInt(val.v)
      [] val.t = "float" -> JFloat(val.v)
      [] val.t = "bool" -> JBool(val.v)
      [] val.t = "string" -> JStr(val.v)
      [] val.t = "identifier" -> Identifier_serialize(val.v)
      [] val.t = "range" -> RangeDescriptor_serialize(val.v)
      [] val.t = "color" -> JStr(snake_case(val.v))
      [] val.t = "vec" -> JArr([i \in 1..Len(val.v) |-> Serialize_value(val.v[i])])
      [] val.t = "ext" -> JExt(val.v[1], val.v[2])

\* The zero-value of a type: numeric 0, false, the empty string, the empty
\* sequence; for a range, both ends 0.
IsZeroValue(val) ==
    CASE val.t \in {"int", "float"} -> val.v = 0
      [] val.t = "bool" -> val.v = FALSE
      [] val.t \in {"string", "vec"} -> val.v = <<>>
      [] val.t = "range" -> val.v.min = 0 /\ val.v.max = 0
      [] OTHER -> FALSE

(***************************************************************************)
(* The values a field of each type is drawn from.                          *)
(***************************************************************************)
I32Vals == {0, 1, 100}
SmallVals == {0, 1}
StringVals == {<<>>, <<"a">>}
IdentVals == {Identifier_new(<<"m">>, <<"s">>), Identifier_new(<<"a">>, <<"b">>)}
ColorVals == {"Black", "DarkBlue", "MaterialResin"}

VecsOf(items) == {<<>>} \cup {<<x>> : x \in items}

RECURSIVE ValuesOf(_)
ValuesOf(value_type) ==
    CASE value_type = "i32" -> {VInt(n) : n \in I32Vals}
      [] value_type = "u8" -> {VInt(n) : n \in SmallVals}
      [] value_type = "f64" -> {VFloat(n) : n \in SmallVals}
      [] value_type = "bool" -> {VBool(b) : b \in BOOLEAN}
      [] value_type = "String" -> {VString(s) : s \in StringVals}
      [] value_type = "Identifier" -> {VIdent(id) : id \in IdentVals}
      [] value_type = "ColorCode" -> {VColor(c) : c \in ColorVals}
      [] value_type = "RangeDescriptor<i32>" ->
             {VRange(RangeDescriptor_new(lo, hi)) : lo \in SmallVals, hi \in SmallVals}
      [] value_type = "Vec<Identifier>" -> {VVec(s) : s \in VecsOf(ValuesOf("Identifier"))}
      [] value_type = "Vec<String>" -> {VVec(s) : s \in VecsOf(ValuesOf("String"))}
      [] value_type \in {"Vec<ItemRepairEntry>", "Vec<BlockDestroySpeed>",
                         "Vec<DurabilityThreshold>"} ->
             {VVec(s) : s \in VecsOf({VExt(value_type, 1)})}
      [] OTHER -> {VExt(value_type, n) : n \in 1..2}

\* Every way to give the fields of a descriptor a value of their type.
RECURSIVE FieldValues(_)
FieldValues(fields) ==
    IF fields = <<>> THEN {<<>>}
    ELSE {<<x>> \o rest : x \in ValuesOf(fields[1].value_type),
                          rest \in FieldValues(Tail(fields))}

\* A component value: which descriptor it was generated from, and its fields.
Component(name, vals) == [desc |-> name, vals |-> vals]

Components(ds) ==
    UNION {{Component(d.name, vals) : vals \in FieldValues(d.fields)} : d \in ds}

(***************************************************************************)
(* serialize() of a generated component, and the check the generator makes *)
(* of a descriptor.                                                        *)
(***************************************************************************)
\* The members of the inner object: the fields in declared order, without
\* those marked "optional" whose value is the zero-value of their type.
RECURSIVE inner_members(_, _)
inner_members(fields, vals) ==
    IF fields = <<>> THEN <<>>
    ELSE (IF "optional" \in fields[1].flags /\ IsZeroValue(vals[1]) THEN <<>>
          ELSE <<Member(fields[1].wire_key, Serialize_value(vals[1]))>>)
         \o inner_members(Tail(fields), Tail(vals))

\* ItemComponent::serialize(&self): one member under the descriptor's wire key.
serialize(self) ==
    LET d == Descriptor(self.desc)
    IN  IF d.transparency
        THEN JObj(<<Member(d.wire_key, Serialize_value(self.vals[1]))>>)
        ELSE JObj(<<Member(d.wire_key, JObj(inner_members(d.fields, self.vals)))>>)

(***************************************************************************)
(* The SemVer machine: construct a version, render it.                     *)
(***************************************************************************)
NoText == [form |-> "none", text |-> <<>>]

SemVerInit == sv = SemVer_current /\ ver_text = NoText

New ==
    \E major \in VerVals, minor \in VerVals, patch \in VerVals :
        /\ sv' = SemVer_new(major, minor, patch)
        /\ ver_text' = NoText
        /\ UNCHANGED not_semver

NewBeta ==
    \E major \in VerVals, minor \in VerVals, patch \in VerVals :
        /\ sv' = SemVer_new_beta(major, minor, patch)
        /\ ver_text' = NoText
        /\ UNCHANGED not_semver

Current ==
    /\ sv' = SemVer_current
    /\ ver_text' = NoText
    /\ UNCHANGED not_semver

Render ==
    /\ ver_text' = [form |-> "dotted", text |-> SemVer_render(sv)]
    /\ UNCHANGED <<sv, not_semver>>

RenderCommas ==
    /\ ver_text' = [form |-> "commas", text |-> SemVer_render_commas(sv)]
    /\ UNCHANGED <<sv, not_semver>>

(***************************************************************************)
(* The Identifier machine: construct two identifiers, render each.         *)
(***************************************************************************)
NotRendered == [done |-> FALSE, text |-> <<>>]

IdentInit ==
    /\ ids = [k \in 1..2 |-> Identifier_new(<<>>, <<>>)]
    /\ id_text = [k \in 1..2 |-> NotRendered]

IdentNew ==
    \E k \in 1..2, namespace \in IdParts, value \in IdParts :
        /\ ids' = [ids EXCEPT ![k] = Identifier_new(namespace, value)]
        /\ id_text' = [id_text EXCEPT ![k] = NotRendered]
        /\ UNCHANGED not_ident

IdentRender ==
    \E k \in 1..2 :
        /\ id_text' = [id_text EXCEPT
                          ![k] = [done |-> TRUE, text |-> Identifier_render(ids[k])]]
        /\ UNCHANGED <<ids, not_ident>>

(***************************************************************************)
(* The ColorCode machine: pick two variants, ask each for its token.       *)
(***************************************************************************)
ColorInit ==
    /\ colors = [k \in 1..2 |-> "Black"]
    /\ tokens = [k \in 1..2 |-> <<>>]

ColorPick ==
    \E k \in 1..2, c \in ColorCode :
        /\ colors' = [colors EXCEPT ![k] = c]
        /\ tokens' = [tokens EXCEPT ![k] = <<>>]
        /\ UNCHANGED not_color

ColorStrCode ==
    \E k \in 1..2 :
        /\ tokens' = [tokens EXCEPT ![k] = str_code(colors[k])]
        /\ UNCHANGED <<colors, not_color>>

(***************************************************************************)
(* Buildable (src/vio.rs:52-56) on a component with public fields, the     *)
(* Durabilty component (src/item/component.rs:62-66).  Values live in a    *)
(* heap so that a handle sharing the original's storage can be told from   *)
(* one that owns a copy.                                                   *)
(***************************************************************************)
BuildVals == {0, 1}

Durabilty_new(damage_chance, max_durability) ==
    [damage_chance |-> damage_chance, max_durability |-> max_durability]

\* #[derive(Clone)]: a new value, field by field.
clone(self) ==
    Durabilty_new(RangeDescriptor_new(self.damage_chance.min, self.damage_chance.max),
                  self.max_durability)

\* Arc::new(v): v moves into a new allocation; the handle is its address.
Arc_new(h, v) == [heap |-> Append(h, v), ptr |-> Len(h) + 1]

\* A plausible slip: the handle shares the original instead of owning a copy.
build_shared(h, self) == [heap |-> h, ptr |-> self]

\* Buildable::build(&self) -> Arc<Self> { Arc::new(self.clone()) }
build(h, self) == Arc_new(h, clone(h[self]))

OrigAddr == 1

BuildInit ==
    /\ heap = <<Durabilty_new(RangeDescriptor_new(0, 0), 0)>>
    /\ handles = <<>>
    /\ frozen = <<>>

\* The owner of the original assigns one of its public fields.
SetMaxDurability ==
    \E v \in BuildVals :
        /\ heap' = [heap EXCEPT ![OrigAddr].max_durability = v]
        /\ UNCHANGED <<handles, frozen, not_build>>

SetDamageChance ==
    \E lo \in BuildVals, hi \in BuildVals :
        /\ heap' = [heap EXCEPT ![OrigAddr].damage_chance = RangeDescriptor_new(lo, hi)]
        /\ UNCHANGED <<handles, frozen, not_build>>

\* original.build(): a new handle; frozen remembers the original as it is now.
Build ==
    /\ Len(handles) < MaxHandles
    /\ LET r == build(heap, OrigAddr)
       IN  /\ heap' = r.heap
           /\ handles' = Append(handles, r.ptr)
           /\ frozen' = Append(frozen, heap[OrigAddr])
    /\ UNCHANGED not_build

\* Arc::clone(&handle): one more handle of the same snapshot.
ArcClone ==
    /\ Len(handles) < MaxHandles
    /\ \E k \in 1..Len(handles) :
           /\ handles' = Append(handles, handles[k])
           /\ frozen' = Append(frozen, frozen[k])
    /\ UNCHANGED <<heap, not_build>>

(***************************************************************************)
(* The component machine: construct a component, assign its public fields, *)
(* serialize it.                                                           *)
(***************************************************************************)
CompInit ==
    /\ comp = Component("Damage", <<VInt(0)>>)
    /\ outs = <<>>

Construct ==
    \E c \in Components(Descriptors) :
        /\ comp' = c
        /\ outs' = <<>>
        /\ UNCHANGED not_comp

\* comp.field = v, for a field declared "public".
Assign ==
    \E i \in 1..Len(comp.vals) :
        /\ "public" \in Descriptor(comp.desc).fields[i].flags
        /\ \E v \in ValuesOf(Descriptor(comp.desc).fields[i].value_type) :
               /\ v # comp.vals[i]
               /\ comp' = [comp EXCEPT !.vals[i] = v]
        /\ outs' = <<>>
        /\ UNCHANGED not_comp

\* A plausible slip: serialize() takes the first field out of the value.
Serialize_taking ==
    /\ Len(outs) < MaxCalls
    /\ outs' = Append(outs, serialize(comp))
    /\ comp' = [comp EXCEPT !.vals[1] =
                   CHOOSE z \in ValuesOf(Descriptor(comp.desc).fields[1].value_type) :
                       z # comp.vals[1]]
    /\ UNCHANGED not_comp

\* comp.serialize(): &self, so the value is only read.
Serialize ==
    /\ Len(outs) < MaxCalls
    /\ outs' = Append(outs, serialize(comp))
    /\ UNCHANGED <<comp, not_comp>>

(***************************************************************************)
(* The item machine: an item collects components and its component map is *)
(* built by serializing each in order.                                     *)
(***************************************************************************)
ItemComponents == Components({Rarity, Durabilty, Damage})

NoMap == [done |-> FALSE, members |-> <<>>]

ItemInit ==
    /\ components = <<>>
    /\ component_map = NoMap

ItemPush ==
    /\ Len(components) < MaxComponents
    /\ \E c \in ItemComponents : components' = Append(components, c)
    /\ component_map' = NoMap
    /\ UNCHANGED not_item

ItemClear ==
    /\ components # <<>>
    /\ components' = <<>>
    /\ component_map' = NoMap
    /\ UNCHANGED not_item

\* The members of every component's fragment, in the order of the components.
RECURSIVE serialize_components(_)
serialize_components(cs) ==
    IF cs = <<>> THEN <<>>
    ELSE serialize(cs[1]).v \o serialize_components(Tail(cs))

ItemSerialize ==
    /\ component_map' = [done |-> TRUE, members |-> serialize_components(components)]
    /\ UNCHANGED <<components, not_item>>

(***************************************************************************)
(* The generator machine: a descriptor is written, item_component! either  *)
(* generates its type or rejects it, and only a generated type can have    *)
(* values.                                                                 *)
(***************************************************************************)
ExtraField(field_name, wire_key) ==
    [field_name |-> field_name, wire_key |-> wire_key, value_type |-> "bool",
     flags |-> {"public"}]

WithField(d, f) == [d EXCEPT !.fields = Append(@, f)]
Flipped(d) == [d EXCEPT !.transparency = ~@]

\* The descriptors of the source, each also with its transparency flipped, and
\* each of those also with one more field: a fresh one, one repeating the
\* first field's wire key, one repeating the first field's name.
WrittenDescriptors ==
    LET base == Descriptors \cup {Flipped(d) : d \in Descriptors}
    IN  base
        \cup {WithField(d, ExtraField("extra", "extra")) : d \in base}
        \cup {WithField(d, ExtraField("extra", d.fields[1].wire_key)) : d \in base}
        \cup {WithField(d, ExtraField(d.fields[1].field_name, "extra")) : d \in base}

\* A plausible slip: the transparent case is not checked.
rejects_keys_only(d) ==
    \/ ~d.transparency /\ \E i, j \in 1..Len(d.fields) :
                              i # j /\ d.fields[i].wire_key = d.fields[j].wire_key
    \/ \E i, j \in 1..Len(d.fields) :
           i # j /\ d.fields[i].field_name = d.fields[j].field_name

\* What fails at generation time: two fields of a non-transparent descriptor
\* with one wire key, a transparent descriptor with more than one field, and
\* (the generated struct naming a field twice) two fields with one name.
rejects(d) ==
    \/ ~d.transparency /\ \E i, j \in 1..Len(d.fields) :
                              i # j /\ d.fields[i].wire_key = d.fields[j].wire_key
    \/ d.transparency /\ Len(d.fields) > 1
    \/ \E i, j \in 1..Len(d.fields) :
           i # j /\ d.fields[i].field_name = d.fields[j].field_name

GenInit ==
    /\ descriptor = Damage
    /\ gen_status = "written"
    /\ constructed = FALSE

GenWrite ==
    \E d \in WrittenDescriptors :
        /\ descriptor' = d
        /\ gen_status' = "written"
        /\ constructed' = FALSE
        /\ UNCHANGED not_gen

GenExpand ==
    /\ gen_status = "written"
    /\ gen_status' = IF rejects(descriptor) THEN "rejected" ELSE "generated"
    /\ UNCHANGED <<descriptor, constructed, not_gen>>

GenConstruct ==
    /\ gen_status = "generated"
    /\ constructed' = TRUE
    /\ UNCHANGED <<descriptor, gen_status, not_gen>>

Init ==
    /\ SemVerInit /\ IdentInit /\ ColorInit /\ BuildInit
    /\ CompInit /\ ItemInit /\ GenInit

Next == Construct \/ Assign \/ Serialize
Spec == Init /\ [][Next]_vars

ItemNext == ItemPush \/ ItemClear \/ ItemSerialize
SpecItem == Init /\ [][ItemNext]_vars

GenNext == GenWrite \/ GenExpand \/ GenConstruct
SpecGen == Init /\ [][GenNext]_vars


SemVerNext == New \/ NewBeta \/ Current \/ Render \/ RenderCommas
IdentNext == IdentNew \/ IdentRender
ColorNext == ColorPick \/ ColorStrCode

SpecSemVer == Init /\ [][SemVerNext]_vars
SpecIdent == Init /\ [][IdentNext]_vars
SpecColor == Init /\ [][ColorNext]_vars
BuildNext == SetMaxDurability \/ SetDamageChance \/ Build \/ ArcClone
SpecBuild == Init /\ [][BuildNext]_vars

(***************************************************************************)
(* Reading a rendered version back: used to state what a rendering says.   *)
(***************************************************************************)
IsDigit(c) == \E d \in 1..10 : Digits[d] = c
DigitVal(c) == (CHOOSE d \in 1..10 : Digits[d] = c) - 1

RECURSIVE ParseNat(_)
ParseNat(t) ==
    IF t = <<>> THEN 0
    ELSE ParseNat(SubSeq(t, 1, Len(t) - 1)) * 10 + DigitVal(t[Len(t)])

\* A decimal integer: an optional minus sign, then one or more digits.
IsIntText(t) ==
    LET digits == IF t # <<>> /\ t[1] = "-" THEN Tail(t) ELSE t
    IN  digits # <<>> /\ \A i \in 1..Len(digits) : IsDigit(digits[i])

ParseInt(t) == IF t[1] = "-" THEN 0 - ParseNat(Tail(t)) ELSE ParseNat(t)

\* The parts of t between the occurrences of the character sep.
RECURSIVE Split(_, _)
Split(t, sep) ==
    IF \A i \in 1..Len(t) : t[i] # sep THEN <<t>>
    ELSE LET at == CHOOSE i \in 1..Len(t) : t[i] = sep /\ \A j \in 1..(i - 1) : t[j] # sep
         IN  <<SubSeq(t, 1, at - 1)>> \o Split(SubSeq(t, at + 1, Len(t)), sep)

BetaSuffix == <<"-", "b", "e", "t", "a">>
EndsWith(t, suffix) ==
    Len(t) >= Len(suffix) /\ SubSeq(t, Len(t) - Len(suffix) + 1, Len(t)) = suffix

\* t is "A.B.C" for the decimal integers A, B, C = major, minor, patch.
IsDotted(t, major, minor, patch) ==
    LET parts == Split(t, ".")
    IN  /\ Len(parts) = 3
        /\ \A i \in 1..3 : IsIntText(parts[i])
        /\ <<ParseInt(parts[1]), ParseInt(parts[2]), ParseInt(parts[3])>>
               = <<major, minor, patch>>

\* t is "A, B, C": one comma and one space between the integers.
IsCommaTriple(t, major, minor, patch) ==
    LET parts == Split(t, ",")
    IN  /\ Len(parts) = 3
        /\ IsIntText(parts[1])
        /\ \A i \in 2..3 : parts[i] # <<>> /\ parts[i][1] = " " /\ IsIntText(Tail(parts[i]))
        /\ <<ParseInt(parts[1]), ParseInt(Tail(parts[2])), ParseInt(Tail(parts[3]))>>
               = <<major, minor, patch>>

(***************************************************************************)
(* C1: once build() has returned a snapshot, whatever is assigned to the   *)
(* original afterwards, every handle of the snapshot shows the original as *)
(* it was when build() ran; and build() does not change the original.      *)
(***************************************************************************)
C1_SnapshotFrozen ==
    /\ [](\A k \in 1..Len(handles) : heap[handles[k]] = frozen[k])
    /\ [][Len(handles') > Len(handles) => heap'[OrigAddr] = heap[OrigAddr]]_vars

\* A snapshot with two handles, and an original that has changed since.
C1_Witness ==
    /\ Len(handles) >= 2
    /\ handles[1] = handles[2]
    /\ heap[handles[1]] # heap[OrigAddr]
    /\ heap[handles[1]] = frozen[1]

\* The descriptors the claim names as transparent.
TransparentNames == {"CustomComponents", "HoverTextColor", "InteractButton", "Rarity"}

(***************************************************************************)
(* C2: serialize() of a transparent component (CustomComponents,           *)
(* HoverTextColor, InteractButton, Rarity) is an object with exactly one   *)
(* member, keyed by the descriptor's wire key, whose value is the          *)
(* serialized value of the only field itself, not an object that wraps it  *)
(* under the field's wire key.                                             *)
(***************************************************************************)
C2_TransparentDirect ==
    /\ {d.name : d \in {e \in Descriptors : e.transparency}} = TransparentNames
    /\ comp.desc \in TransparentNames =>
           \A k \in 1..Len(outs) :
               LET d == Descriptor(comp.desc)
                   frag == outs[k]
               IN  /\ frag.j = "object"
                   /\ Len(frag.v) = 1
                   /\ frag.v[1].key = d.wire_key
                   /\ frag.v[1].value = Serialize_value(comp.vals[1])
                   /\ ~(/\ frag.v[1].value.j = "object"
                        /\ \E m \in 1..Len(frag.v[1].value.v) :
                               frag.v[1].value.v[m].key = d.fields[1].wire_key)

\* A Rarity component, serialized: its value sits right under its wire key.
C2_Witness ==
    /\ comp = Component("Rarity", <<VExt("ItemRarity", 1)>>)
    /\ outs = <<JObj(<<Member("minecraft:rarity", JExt("ItemRarity", 1))>>)>>

\* The fields that are not both marked optional and at their zero-value.
KeptFields(d, vals) ==
    {i \in 1..Len(d.fields) :
        ~("optional" \in d.fields[i].flags /\ IsZeroValue(vals[i]))}

\* The elements of a set of numbers, smallest first.
Ascending(S) ==
    CHOOSE s \in [1..Cardinality(S) -> S] :
        \A a, b \in 1..Cardinality(S) : a < b => s[a] < s[b]

(***************************************************************************)
(* C3: serialize() of a non-transparent component is one member, keyed by  *)
(* the descriptor's wire key, whose value is an object holding exactly the *)
(* fields that are not both marked optional and at their zero-value, each  *)
(* under its own wire key, in declared order; an optional field at its     *)
(* zero-value (Damage.value = 0) is left out, not written as null.         *)
(***************************************************************************)
C3_InnerObjectFields ==
    /\ ~Descriptor(comp.desc).transparency =>
           \A k \in 1..Len(outs) :
               LET d == Descriptor(comp.desc)
                   kept == Ascending(KeptFields(d, comp.vals))
                   n_kept == Cardinality(KeptFields(d, comp.vals))
                   frag == outs[k]
               IN  /\ frag.j = "object"
                   /\ Len(frag.v) = 1
                   /\ frag.v[1].key = d.wire_key
                   /\ frag.v[1].value.j = "object"
                   /\ Len(frag.v[1].value.v) = n_kept
                   /\ \A n \in 1..n_kept :
                          /\ frag.v[1].value.v[n]
                                 = Member(d.fields[kept[n]].wire_key,
                                          Serialize_value(comp.vals[kept[n]]))
                          /\ frag.v[1].value.v[n].value.j # JNull.j
    /\ comp = Component("Damage", <<VInt(0)>>) =>
           \A k \in 1..Len(outs) :
               outs[k] = JObj(<<Member("minecraft:damage", JObj(<<>>))>>)
    /\ comp = Component("Damage", <<VInt(1)>>) =>
           \A k \in 1..Len(outs) :
               outs[k] = JObj(<<Member("minecraft:damage",
                                      JObj(<<Member("value", JInt(1))>>))>>)

\* Damage with value 0, serialized: the inner object is empty.
C3_Witness ==
    /\ comp = Component("Damage", <<VInt(0)>>)
    /\ outs = <<JObj(<<Member("minecraft:damage", JObj(<<>>))>>)>>

\* The serialized item holds a Rarity, then a Durability with max_durability 100.
RarityAndDurability100 ==
    /\ component_map.done
    /\ Len(components) = 2
    /\ components[1].desc = "Rarity"
    /\ components[2].desc = "Durabilty"
    /\ components[2].vals[2] = VInt(100)

(***************************************************************************)
(* C4, as claimed: an item made of a Rarity component and a Durability     *)
(* component with max_durability = 100 serializes to                       *)
(* {"minecraft:rarity": r, "minecraft:durability": {"max_durability": 100}}*)
(* when damage_chance is at its zero-value, and holds damage_chance        *)
(* otherwise.                                                              *)
(***************************************************************************)
C4_DefaultChanceOmitted ==
    RarityAndDurability100 =>
        LET chance == components[2].vals[1]
        IN  component_map.members =
                <<Member("minecraft:rarity", Serialize_value(components[1].vals[1])),
                  Member("minecraft:durability",
                         JObj((IF IsZeroValue(chance) THEN <<>>
                               ELSE <<Member("damage_chance", Serialize_value(chance))>>)
                              \o <<Member("max_durability", JInt(100))>>))>>

(***************************************************************************)
(* C4, amended: the same item serializes to {"minecraft:rarity": r,        *)
(* "minecraft:durability": {"damage_chance": {"min": m, "max": M},         *)
(* "max_durability": 100}}: damage_chance is not marked optional, so it is *)
(* present whatever its value, its zero-value included, and it comes       *)
(* before max_durability.                                                  *)
(***************************************************************************)
C4_ChanceAlwaysPresent ==
    RarityAndDurability100 =>
        LET chance == components[2].vals[1].v
        IN  component_map.members =
                <<Member("minecraft:rarity", Serialize_value(components[1].vals[1])),
                  Member("minecraft:durability",
                         JObj(<<Member("damage_chance",
                                       JObj(<<Member("min", JInt(chance.min)),
                                              Member("max", JInt(chance.max))>>)),
                                Member("max_durability", JInt(100))>>))>>

\* The item of the claim with damage_chance at its zero-value, serialized.
C4_Witness ==
    /\ RarityAndDurability100
    /\ components[2].vals[1] = VRange(RangeDescriptor_new(0, 0))
    /\ component_map.members[2].value.v[1].key = "damage_chance"

\* Unique field names, unique wire keys unless transparent, one field if transparent.
WellFormed(d) ==
    /\ Cardinality({d.fields[i].field_name : i \in 1..Len(d.fields)}) = Len(d.fields)
    /\ ~d.transparency =>
           Cardinality({d.fields[i].wire_key : i \in 1..Len(d.fields)}) = Len(d.fields)
    /\ d.transparency => Len(d.fields) = 1

C7_StrCodeInjective ==
    /\ Cardinality(ColorCode) = 28
    /\ \A k \in 1..2 :
           tokens[k] # <<>> =>
               /\ colors[k] \in ColorCode
               /\ Len(tokens[k]) = 2
               /\ tokens[k][1] = "§"
    /\ (tokens[1] # <<>> /\ tokens[2] # <<>> /\ colors[1] # colors[2])
           => tokens[1] # tokens[2]

\* Two different variants, both with their token computed.
C7_Witness ==
    /\ colors[1] = "MaterialAmethyst" /\ colors[2] = "MaterialResin"
    /\ tokens[1] = <<"§", "u">> /\ tokens[2] = <<"§", "v">>

(***************************************************************************)
(* C8: render() of a version made by new is "MAJOR.MINOR.PATCH" with no    *)
(* suffix, of one made by new_beta it is "MAJOR.MINOR.PATCH-beta", and     *)
(* render_commas() is "MAJOR, MINOR, PATCH" with no suffix, beta or not.   *)
(***************************************************************************)
C8_RenderForms ==
    /\ ver_text.form = "dotted" =>
           /\ sv.beta => /\ EndsWith(ver_text.text, BetaSuffix)
                         /\ IsDotted(SubSeq(ver_text.text, 1, Len(ver_text.text) - 5),
                                     sv.major, sv.minor, sv.patch)
           /\ ~sv.beta => /\ ~EndsWith(ver_text.text, BetaSuffix)
                          /\ IsDotted(ver_text.text, sv.major, sv.minor, sv.patch)
    /\ ver_text.form = "commas" =>
           /\ ~EndsWith(ver_text.text, BetaSuffix)
           /\ IsCommaTriple(ver_text.text, sv.major, sv.minor, sv.patch)
    \* the examples of the specification
    /\ (ver_text.form = "dotted" /\ sv = SemVer_new(1, 0, 0))
           => ver_text.text = <<"1", ".", "0", ".", "0">>
    /\ (ver_text.form = "dotted" /\ sv = SemVer_new_beta(1, 2, 0))
           => ver_text.text = <<"1", ".", "2", ".", "0", "-", "b", "e", "t", "a">>
    /\ (ver_text.form = "commas" /\ sv = SemVer_new(1, 0, 0))
           => ver_text.text = <<"1", ",", " ", "0", ",", " ", "0">>

\* A beta version rendered with commas: the suffix is dropped.
C8_Witness ==
    /\ sv = SemVer_new_beta(1, 2, 0)
    /\ ver_text = [form |-> "commas", text |-> <<"1", ",", " ", "2", ",", " ", "0">>]

(***************************************************************************)
(* C9: every SemVer obtained from new, new_beta or current has             *)
(* non-negative major, minor and patch.                                    *)
(***************************************************************************)
C9_NonNegative == sv.major >= 0 /\ sv.minor >= 0 /\ sv.patch >= 0

(***************************************************************************)
(* C10: render() is "<namespace>:<value>", and two identifiers made by     *)
(* Identifier::new with different (namespace, value) pairs never render to *)
(* the same text.                                                          *)
(***************************************************************************)
C10_RenderUnambiguous ==
    /\ \A k \in 1..2 :
           id_text[k].done =>
               /\ Len(id_text[k].text) = Len(ids[k].namespace) + 1 + Len(ids[k].value)
               /\ SubSeq(id_text[k].text, 1, Len(ids[k].namespace)) = ids[k].namespace
               /\ id_text[k].text[Len(ids[k].namespace) + 1] = ":"
               /\ SubSeq(id_text[k].text, Len(ids[k].namespace) + 2, Len(id_text[k].text))
                      = ids[k].value
    /\ (id_text[1].done /\ id_text[2].done /\ ids[1] # ids[2])
           => id_text[1].text # id_text[2].text
====
